---- MODULE Spec2Model ----
(***************************************************************************)
(* Page-rendering pipeline of the liveenity web server (src/server.js).    *)
(*                                                                         *)
(* src/server.js holds two server definitions: the first at lines 1-420,   *)
(* the second at lines 421-843.  The variable ver says which one runs.     *)
(*                                                                         *)
(* Strings are sequences of tokens.  A token is an indivisible piece of    *)
(* text (a tag the regular expressions of the code name literally, or a    *)
(* single character of running text), so that a regular expression of the  *)
(* code matches a sequence of tokens exactly when it matches the text the  *)
(* tokens spell.                                                           *)
(***************************************************************************)
EXTENDS Integers, Sequences, FiniteSets, TLC

(***************************************************************************)
(* Tokens                                                                  *)
(***************************************************************************)
TO == "<title>"
TC == "</title>"
HO == "<h1 class=\"display-4 fw-bold mb-3 blog-title\">"
HC == "</h1>"
SO == "<span class=\"post-date\">"
SC == "</span>"
DO == "<div class=\"blog-content"
DA == " article-content text-start\">"
DC == "</div>"
PO == "<p class=\"lead text-muted mb-5\">"
PC == "</p>"
LV == " - Liveenity"
NL == "\n"
PT == "<p>"

\* the tokens whose text holds the character '<'
LtTokens == {TO, TC, HO, HC, SO, SC, DO, DC, PO, PC, PT}
\* the tokens whose text holds the character '"'
QuoteTokens == {HO, SO, DO, DA, PO}

HasLt(tok) == tok \in LtTokens
HasQuote(tok) == tok \in QuoteTokens
\* the class \s
IsSpace(tok) == tok = NL
\* the class . (anything but a line terminator)
IsDot(tok) == tok # NL

\* the value of a column that is NULL (no text spells the token it holds)
Null == <<"NULL">>

\* the text a template literal ${v} inserts for the value v
Str(v) == IF v = Null THEN <<"null">> ELSE v

(***************************************************************************)
(* Regular expressions of the code, on token sequences.                    *)
(* Each XxxEnd(s, i) is the index of the last token of the match that      *)
(* starts at token i, or 0 when the expression does not match there.       *)
(***************************************************************************)
\* the least k in lo..Len(s) with P(s[k]), or 0
FirstFrom(s, lo, P(_)) ==
    IF \E k \in lo..Len(s) : P(s[k])
    THEN CHOOSE k \in lo..Len(s) : P(s[k]) /\ \A m \in lo..(k-1) : ~P(s[m])
    ELSE 0

\* OPEN [^<]* CLOSE : the first token after i holding '<' must be CLOSE
NoLtEnd(s, i, open, close) ==
    IF s[i] # open THEN 0
    ELSE LET k == FirstFrom(s, i + 1, HasLt)
         IN IF k # 0 /\ s[k] = close THEN k ELSE 0

\* OPEN .*? CLOSE : lazy, '.' does not cross a line terminator
DotLazyEnd(s, i, open, close) ==
    IF s[i] # open THEN 0
    ELSE LET IsClose(t) == t = close
             k == FirstFrom(s, i + 1, IsClose)
         IN IF k # 0 /\ \A m \in (i+1)..(k-1) : IsDot(s[m]) THEN k ELSE 0

\* OPEN [\s\S]*? CLOSE : lazy, anything in between
AnyLazyEnd(s, i, open, close) ==
    IF s[i] # open THEN 0
    ELSE LET IsClose(t) == t = close
         IN FirstFrom(s, i + 1, IsClose)

\* /<title>[^<]*<\/title>/
TitleEnd(s, i) == NoLtEnd(s, i, TO, TC)

\* /<h1 class="display-4 fw-bold mb-3 blog-title">[^<]*<\/h1>/
HeadingEnd1(s, i) == NoLtEnd(s, i, HO, HC)

\* /<span class="post-date">[^<]*<\/span>/
DateEnd1(s, i) == NoLtEnd(s, i, SO, SC)

\* /<div class="blog-content[\s\S]*?<\/div>/
ContentEnd1(s, i) == AnyLazyEnd(s, i, DO, DC)

\* /(<h1 class="[^"]*?blog-title[^"]*?">).*?(<\/h1>)/
HeadingEnd2(s, i) == DotLazyEnd(s, i, HO, HC)

\* the index of the last token of group 1 of the content expression of the
\* second definition, matched from token i, or 0:
\* (<div class="[^"]*?blog-content[^"]*?\s+article-content[^"]*?">\s*
\*  <p class="[^"]*?lead[^"]*?\s+text-muted[^"]*?\s+mb-5[^"]*?">)
ContentGroup1End2(s, i) ==
    IF s[i] # DO THEN 0
    ELSE LET a == FirstFrom(s, i + 1, HasQuote)
         IN IF a = 0 \/ s[a] # DA THEN 0
            ELSE LET NotSpace(t) == ~IsSpace(t)
                     p == FirstFrom(s, a + 1, NotSpace)
                 IN IF p # 0 /\ s[p] = PO THEN p ELSE 0

\* group 1, then .*?(<\/p>)
ContentEnd2(s, i) ==
    LET p == ContentGroup1End2(s, i)
    IN IF p = 0 THEN 0 ELSE DotLazyEnd(s, p, PO, PC)

\* RegExp.prototype.exec without the g flag: the leftmost match
\* [start, end], start = 0 when there is none
Exec(s, End(_, _)) ==
    IF \E i \in 1..Len(s) : End(s, i) # 0
    THEN LET i == CHOOSE i \in 1..Len(s) :
                     End(s, i) # 0 /\ \A m \in 1..(i-1) : End(s, m) = 0
         IN [start |-> i, end |-> End(s, i)]
    ELSE [start |-> 0, end |-> 0]

(***************************************************************************)
(* String.prototype.replace(regexp, string): the replacement text is       *)
(* expanded by GetSubstitution: $$ is a dollar, $& the matched text, $n    *)
(* the n-th group when the expression has one, anything else is literal.   *)
(***************************************************************************)
RECURSIVE Expand(_, _, _)
Expand(rep, matched, groups) ==
    IF rep = <<>> THEN <<>>
    ELSE IF Head(rep) = "$" /\ Len(rep) >= 2
         THEN IF rep[2] = "$"
              THEN <<"$">> \o Expand(SubSeq(rep, 3, Len(rep)), matched, groups)
              ELSE IF rep[2] = "&"
              THEN matched \o Expand(SubSeq(rep, 3, Len(rep)), matched, groups)
              ELSE IF rep[2] = "1" /\ Len(groups) >= 1
              THEN groups[1] \o Expand(SubSeq(rep, 3, Len(rep)), matched, groups)
              ELSE IF rep[2] = "2" /\ Len(groups) >= 2
              THEN groups[2] \o Expand(SubSeq(rep, 3, Len(rep)), matched, groups)
              ELSE <<"$">> \o Expand(Tail(rep), matched, groups)
         ELSE <<Head(rep)>> \o Expand(Tail(rep), matched, groups)

\* s.replace(re, rep) for an expression without the g flag: only the
\* leftmost match is replaced; no match leaves s as it is.
\* Groups(s, i, j) are the captures of the match s[i..j].
ReplaceFirst(s, End(_, _), Groups(_, _, _), rep) ==
    LET m == Exec(s, End)
    IN IF m.start = 0 THEN s
       ELSE SubSeq(s, 1, m.start - 1)
            \o Expand(rep, SubSeq(s, m.start, m.end), Groups(s, m.start, m.end))
            \o SubSeq(s, m.end + 1, Len(s))

NoGroups(s, i, j) == <<>>
HeadingGroups2(s, i, j) == << <<s[i]>>, <<s[j]>> >>
ContentGroups2(s, i, j) == << SubSeq(s, i, ContentGroup1End2(s, i)), <<s[j]>> >>

(***************************************************************************)
(* The substitutions of servePages, one per call of replace.               *)
(***************************************************************************)
\* a title substitution that fails the render when its pattern is not found
TitlePass_Strict(s, post) ==
    IF Exec(s, TitleEnd).start = 0 THEN <<>>
    ELSE ReplaceFirst(s, TitleEnd, NoGroups, <<TO>> \o Str(post.title) \o <<LV, TC>>)

\* a title substitution that puts the new element before the old one
TitlePass_Insert(s, post) ==
    LET m == Exec(s, TitleEnd)
    IN IF m.start = 0 THEN s
       ELSE SubSeq(s, 1, m.start - 1) \o <<TO>> \o Str(post.title) \o <<LV, TC>>
            \o SubSeq(s, m.start, Len(s))

\* a title substitution without the site name
TitlePass_NoSite(s, post) ==
    ReplaceFirst(s, TitleEnd, NoGroups, <<TO>> \o Str(post.title) \o <<TC>>)

\* .replace(/<title>[^<]*<\/title>/, `<title>${post.title} - Liveenity</title>`)
TitlePass(s, post) ==
    ReplaceFirst(s, TitleEnd, NoGroups, <<TO>> \o Str(post.title) \o <<LV, TC>>)

\* first definition: the heading, the date and the content
HeadingPass1(s, post) ==
    ReplaceFirst(s, HeadingEnd1, NoGroups, <<HO>> \o Str(post.title) \o <<HC>>)

DatePass1(s, date) ==
    ReplaceFirst(s, DateEnd1, NoGroups, <<SO, date, SC>>)

ContentPass1(s, post) ==
    ReplaceFirst(s, ContentEnd1, NoGroups, <<DO, DA>> \o Str(post.content) \o <<DC>>)

\* second definition: the heading and the content, `$1${...}$2`
HeadingPass2(s, post) ==
    ReplaceFirst(s, HeadingEnd2, HeadingGroups2,
                 <<"$", "1">> \o Str(post.title) \o <<"$", "2">>)

ContentPass2(s, post) ==
    ReplaceFirst(s, ContentEnd2, ContentGroups2,
                 <<"$", "1">> \o Str(post.content) \o <<"$", "2">>)

\* the substitutions each definition applies, in the order of its calls
Passes(v) ==
    IF v = 1 THEN <<"title", "heading", "date", "content">>
    ELSE <<"title", "heading", "content">>

ApplyPass(v, name, s, post, date) ==
    CASE name = "title" -> TitlePass(s, post)
      [] name = "heading" -> IF v = 1 THEN HeadingPass1(s, post) ELSE HeadingPass2(s, post)
      [] name = "date" -> DatePass1(s, date)
      [] name = "content" -> IF v = 1 THEN ContentPass1(s, post) ELSE ContentPass2(s, post)

\* the leftmost match in s of the pattern of a substitution
MatchOf(v, name, s) ==
    CASE name = "title" -> Exec(s, TitleEnd)
      [] name = "heading" -> IF v = 1 THEN Exec(s, HeadingEnd1) ELSE Exec(s, HeadingEnd2)
      [] name = "date" -> Exec(s, DateEnd1)
      [] name = "content" -> IF v = 1 THEN Exec(s, ContentEnd1) ELSE Exec(s, ContentEnd2)

\* the template after the chain of replace calls from the k-th on
RECURSIVE RenderFrom(_, _, _, _, _)
RenderFrom(v, k, s, post, date) ==
    IF k > Len(Passes(v)) THEN s
    ELSE RenderFrom(v, k + 1, ApplyPass(v, Passes(v)[k], s, post, date), post, date)

Render(v, s, post, date) == RenderFrom(v, 1, s, post, date)

(***************************************************************************)
(* Bounds and the inputs drawn within them                                 *)
(***************************************************************************)
\* a template is the concatenation of at most MaxSegs of the pieces Segs:
\* the regions the patterns match, the opening and the closing of a
\* content div (so that regions can lie inside one), and a line break
MaxSegs == 3

Segs ==
    { <<TO, "x", TC>>,
      <<HO, "x", HC>>,
      <<SO, "x", SC>>,
      <<DO, DA, "x", DC>>,
      <<DO, DA, PO, "x", PC, DC>>,
      <<DO, DA>>,
      <<DC>>,
      <<NL>> }

RECURSIVE Concat(_)
Concat(ss) == IF ss = <<>> THEN <<>> ELSE Head(ss) \o Concat(Tail(ss))

Templates == { Concat(ss) : ss \in UNION { [1..k -> Segs] : k \in 0..MaxSegs } }

\* the rows: titles and contents of plain text, with markup, with a
\* closing tag, with a replacement pattern, and NULL; a title that holds
\* the markup of a heading
Titles == { <<"a">>, <<"$", "&">>, <<PT, "a">>, <<HO, "y", HC>>, Null }
Contents == { <<"b">>, <<PT, "b">>, <<PT, "b", PC>>, <<"b", DC, "b">>, <<"$", "&">> }
Posts ==
    { [title |-> t, content |-> <<"b">>] : t \in Titles }
    \cup { [title |-> <<"a">>, content |-> c] : c \in Contents }

\* toLocaleDateString('en-US', {year, month, day}) of the day of the request
Dates == { "November 5, 2026" }

\* the requests of a run
NReq == 1
Reqs == 1..NReq

\* how often a file of the site changes under the running server
MaxFsChanges == 1

\* what a read of a file meets: the file, ENOENT, or another error (EACCES)
FileStates == {"ok", "missing", "unreadable"}

\* a page with its four regions: title, heading, date and content; the
\* content either fills the div or sits in the lead paragraph of the div
Page(t, h, d, c, lead) ==
    <<"<html>", TO>> \o t \o <<TC, HO>> \o h \o <<HC, SO>> \o d \o <<SC, DO, DA>>
    \o (IF lead THEN <<PO>> \o c \o <<PC>> ELSE c) \o <<DC, "</html>">>

\* the same page without its heading
PageNoHeading(t, d, c, lead) ==
    <<"<html>", TO>> \o t \o <<TC, SO>> \o d \o <<SC, DO, DA>>
    \o (IF lead THEN <<PO>> \o c \o <<PC>> ELSE c) \o <<DC, "</html>">>

Old == <<"x">>

\* the texts the template file pages.html can hold
TplFiles ==
    { Page(Old, Old, Old, Old, FALSE),
      Page(Old, Old, Old, Old, TRUE),
      PageNoHeading(Old, Old, Old, TRUE) }

NotFoundFile == <<"404.html">>
AltPageFile == <<"pages/pages.html">>

\* a row without created_at
NoDate == ""

\* the rows of blog_posts, by slug
Slugs == {"none", "one", "two"}
Table ==
    [ sl \in Slugs |->
        CASE sl = "none" -> <<>>
          [] sl = "one" -> << [title |-> <<"a">>, content |-> <<PT, "b">>,
                               created_at |-> "January 1, 2020"] >>
          [] sl = "two" -> << [title |-> <<"$", "&">>, content |-> <<"b", DC, "b">>,
                               created_at |-> NoDate],
                              [title |-> <<"a">>, content |-> <<"b">>,
                               created_at |-> NoDate] >> ]

\* the columns the SELECT of servePages names, as the handler reads them
\* (the second definition also selects slug, which it only logs)
Selected(row) == [title |-> row.title, content |-> row.content]

\* the errors a call of db.execute rejects with
DbErrors == {"Unavailable", "Timeout", "RequestFailed", "ProtocolError"}

NoPost == [title |-> <<>>, content |-> <<>>]

\* public/pages as express.static meets it: not a directory, a directory
\* without index.html, a directory with index.html
DirStates == {"none", "empty", "index"}

SitemapFile == <<"sitemap.xml">>
IndexFile == <<"index.html">>
PagesIndexFile == <<"pages/index.html">>
KeywordsFile == <<"keywords.html">>

\* req.query.query of GET /api/search: absent, or a term
Terms == { <<>>, <<"b">> }

\* the SQL texts, with each placeholder a token of its own
Placeholder == "?"
PageSql(v) ==
    IF v = 1 THEN <<"SELECT title, content FROM blog_posts WHERE slug = ", Placeholder>>
    ELSE <<"SELECT title, content, slug FROM blog_posts WHERE slug = ", Placeholder>>
SearchSql ==
    <<"SELECT title, content, slug FROM blog_posts WHERE title LIKE ", Placeholder,
      " OR content LIKE ", Placeholder>>

\* the message of the TypeError of db.execute when db is undefined
NoDbMessage == "Cannot read properties of undefined (reading 'execute')"

\* the last segment of the path of a request as GET /:page sees it, split
\* before the dot of its extension
PageName(kind) == IF kind = "sitemap" THEN <<"sitemap", ".xml">> ELSE <<"pages">>

\* path.extname(page) is not empty
HasExt(page) == Len(page) > 1

\* the requests of GET /api/keywords that run beside a POST /api/keywords
NGets == 2
Gets == 1..NGets

\* the lists a POST /api/keywords saves
KeywordLists == { <<"k1">>, <<"k1", "k2">> }

\* SCRAP/KEYWORDS.txt is not there, and no request for it under way
KwIdle ==
    [file |-> [there |-> FALSE, lines |-> <<>>],
     get |-> [g \in Gets |-> [pc |-> "idle", status |-> 0, body |-> <<>>]],
     post |-> [pc |-> "idle", list |-> <<>>, status |-> 0],
     saved |-> <<>>]

VARIABLES
    ver,       \* 1 or 2: the server definition that runs
    dbReady,   \* whether db was created (TURSO_DATABASE_URL and TURSO_AUTH_TOKEN set)
    fs,        \* the files: tpl is pages.html, nf is 404.html, alt is pages/pages.html,
               \* sm is sitemap.xml, idx is index.html, pdir is the directory public/pages
    fsChanges, \* how often a file changed so far
    reqs,      \* the requests: their position in the handlers and their response
    rtpl,      \* the text read from the template file
    rpost,     \* result.rows[0]
    rdate,     \* formattedDate
    rcur,      \* the variable template of servePages
    rpc,       \* the next call of the chain of replace calls
    rstatus,   \* the status of the response of the render, 0 before it is sent
    rlog,      \* the substitutions applied so far, in order
    table,     \* the rows of blog_posts, by slug
    kw         \* SCRAP/KEYWORDS.txt and the requests of /api/keywords

xvars == <<table, kw>>
svars == <<dbReady, fs, fsChanges, reqs, table, kw>>
rvars == <<rtpl, rpost, rdate, rcur, rpc, rstatus, rlog>>
vars == <<ver, dbReady, fs, fsChanges, reqs, rtpl, rpost, rdate, rcur, rpc, rstatus, rlog,
          table, kw>>

IdleReq ==
    [kind |-> "none", slug |-> "", pc |-> "idle", lookup |-> "none",
     readFailed |-> FALSE, post |-> NoPost, date |-> "", status |-> 0, body |-> <<>>,
     slash |-> FALSE, term |-> <<>>, calls |-> <<>>, ctype |-> "",
     via |-> "none", nsent |-> 0]

ServerIdle ==
    /\ dbReady = TRUE
    /\ fs = [tpl |-> [st |-> "ok", txt |-> Page(Old, Old, Old, Old, FALSE)],
             nf |-> [st |-> "ok"], alt |-> [st |-> "missing"],
             sm |-> [st |-> "ok"], idx |-> [st |-> "ok"], pdir |-> [st |-> "none"]]
    /\ fsChanges = 0
    /\ reqs = [r \in Reqs |-> IdleReq]
    /\ table = Table
    /\ kw = KwIdle

RenderIdle ==
    /\ rtpl = <<>>
    /\ rpost = NoPost
    /\ rdate = ""
    /\ rcur = <<>>
    /\ rpc = "off"
    /\ rstatus = 0
    /\ rlog = <<>>

(***************************************************************************)
(* The chain of replace calls of servePages, one call per step.            *)
(***************************************************************************)
RenderInit ==
    /\ ver \in {1, 2}
    /\ rtpl \in Templates
    /\ rpost \in Posts
    /\ rdate \in Dates
    /\ rcur = rtpl
    /\ rpc = "title"
    /\ rstatus = 0
    /\ rlog = <<>>
    /\ ServerIdle

Step(name, next) ==
    /\ rpc = name
    /\ rcur' = ApplyPass(ver, name, rcur, rpost, rdate)
    /\ rlog' = Append(rlog, [pass |-> name, before |-> rcur, after |-> rcur'])
    /\ rpc' = next
    /\ UNCHANGED <<ver, rtpl, rpost, rdate, rstatus, svars>>

ReplaceTitle == Step("title", "heading")

ReplaceHeading == Step("heading", IF ver = 1 THEN "date" ELSE "content")

ReplaceDate == ver = 1 /\ Step("date", "content")

ReplaceContent == Step("content", "send")

\* return res.send(template)
SendRendered ==
    /\ rpc = "send"
    /\ rpc' = "sent"
    /\ rstatus' = 200
    /\ UNCHANGED <<ver, rtpl, rpost, rdate, rcur, rlog, svars>>

RenderNext ==
    \/ ReplaceTitle
    \/ ReplaceHeading
    \/ ReplaceDate
    \/ ReplaceContent
    \/ SendRendered

SpecRender == RenderInit /\ [][RenderNext]_vars

(***************************************************************************)
(* The server: GET /pages and GET /pages/:slug, one step per await or      *)
(* file callback.                                                          *)
(***************************************************************************)
\* the server after its start: either definition, with or without the
\* database configured, over the files of the site; sitemap.xml and
\* index.html are there at the start and change with FsChange
Init ==
    /\ ver \in {1, 2}
    /\ dbReady \in BOOLEAN
    /\ fs \in { f \in [tpl : [st : FileStates, txt : TplFiles],
                       nf : [st : FileStates], alt : [st : FileStates],
                       sm : [st : {"ok"}], idx : [st : {"ok"}],
                       pdir : [st : DirStates]] :
                    f.pdir.st = "none" => f.alt.st = "missing" }
    /\ fsChanges = 0
    /\ reqs = [r \in Reqs |-> IdleReq]
    /\ table = Table
    /\ kw = KwIdle
    /\ RenderIdle

RespondType(q, status, body, ctype) ==
    [q EXCEPT !.pc = "done", !.status = status, !.body = body, !.ctype = ctype,
              !.nsent = @ + 1]

Respond(q, status, body) == RespondType(q, status, body, "text/html")

\* what Express answers when a handler passes an error of a file read to
\* next: the status of the error (404 for ENOENT, 500 otherwise) and an
\* error page
ExpressError(q, st) ==
    Respond(q, IF st = "missing" THEN 404 ELSE 500, <<"express error page">>)

\* a servePages that answers with an error when db was never created
EnterServePages_NeedsDb(q) ==
    IF ~dbReady THEN ExpressError([q EXCEPT !.via = "resolver"], "unreadable")
    ELSE IF q.kind = "slug"
    THEN [q EXCEPT !.pc = "db", !.via = "resolver",
                   !.calls = Append(@, [sql |-> PageSql(ver), args |-> <<q.slug>>])]
    ELSE [q EXCEPT !.pc = "default", !.via = "resolver"]

\* a servePages that writes the slug into the SQL text
EnterServePages_Concat(q) ==
    IF q.kind = "slug"
    THEN IF dbReady
         THEN [q EXCEPT !.pc = "db", !.via = "resolver",
                        !.calls = Append(@, [sql |-> <<"SELECT title, content FROM blog_posts WHERE slug = '",
                                                       q.slug, "'">>,
                                             args |-> <<>>])]
         ELSE [q EXCEPT !.pc = "default", !.via = "resolver", !.lookup = "nodb"]
    ELSE [q EXCEPT !.pc = "default", !.via = "resolver"]

\* servePages up to its first await: without a slug it goes to the default
\* page; with a slug it calls db.execute, which throws into the catch when
\* db was never created
EnterServePages(q) ==
    IF q.kind = "slug"
    THEN IF dbReady
         THEN [q EXCEPT !.pc = "db", !.via = "resolver",
                        !.calls = Append(@, [sql |-> PageSql(ver), args |-> <<q.slug>>])]
         ELSE [q EXCEPT !.pc = "default", !.via = "resolver", !.lookup = "nodb"]
    ELSE [q EXCEPT !.pc = "default", !.via = "resolver"]

\* the catch of GET /api/search: 500 with the message of the error in detail
SearchCatch(q, e) ==
    RespondType(q, 500,
                <<"error", "Failed to execute search query.", e>>, "application/json")

\* GET /api/search up to its await: 400 without a search term, and the
\* call of db.execute, which throws into the catch when db was never created
SearchEnter(q) ==
    IF q.term = <<>>
    THEN RespondType([q EXCEPT !.via = "search"], 400,
                     <<"error", "Missing 'query' search parameter.">>, "application/json")
    ELSE IF dbReady
    THEN [q EXCEPT !.pc = "searchDb", !.via = "search",
                   !.calls = Append(@, [sql |-> SearchSql,
                                        args |-> << <<"%">> \o q.term \o <<"%">>,
                                                    <<"%">> \o q.term \o <<"%">> >>])]
    ELSE SearchCatch([q EXCEPT !.via = "search"], NoDbMessage)

\* routes behind GET /:page without the middleware that answers 404: the
\* routes registered after servePages are reached
AfterPage_NoMw(q) ==
    CASE q.kind \in {"pages", "slug"} -> EnterServePages(q)
      [] q.kind = "search" -> SearchEnter(q)
      [] q.kind = "sitemap" -> [q EXCEPT !.pc = "sitemapSend", !.via = "sitemap"]
      [] OTHER -> [q EXCEPT !.pc = "catchAll", !.via = "catchAll"]

\* the routes of the second definition behind GET /:page: servePages for
\* /pages and /pages/:slug, then the middleware that answers 404 to every
\* request, which keeps the routes registered after it from running
AfterPage(q) ==
    IF q.kind \in {"pages", "slug"} THEN EnterServePages(q)
    ELSE [q EXCEPT !.pc = "mw404", !.via = "mw404"]

\* a GET /:page that does not look at the extension of the name
PageHandler_AnyName(q) == [q EXCEPT !.pc = "pageAccess", !.via = "page"]

\* GET /:page of the second definition up to fs.access: next() for a name
\* with an extension
PageHandler(q) ==
    IF HasExt(PageName(q.kind)) THEN AfterPage([q EXCEPT !.via = "page"])
    ELSE [q EXCEPT !.pc = "pageAccess", !.via = "page"]

\* the routes in the order of their registration, up to the first await.
\* First definition: /api/search, /pages and /pages/:slug, /keywords (the
\* handler that builds the page; the one registered after it for the same
\* path is reached only through next, which the first never calls),
\* /sitemap.xml, then the catch-all. Second definition: GET /keywords,
\* GET /:page, which matches every other path of one segment, then what
\* AfterPage holds
Route(q) ==
    IF ver = 1
    THEN CASE q.kind = "search" -> SearchEnter(q)
           [] q.kind \in {"pages", "slug"} -> EnterServePages(q)
           [] q.kind = "keywords" -> [q EXCEPT !.pc = "kwPage", !.via = "keywords"]
           [] q.kind = "sitemap" -> [q EXCEPT !.pc = "sitemapSend", !.via = "sitemap"]
           [] OTHER -> [q EXCEPT !.pc = "catchAll", !.via = "catchAll"]
    ELSE IF q.kind = "keywords" THEN [q EXCEPT !.pc = "kwSend", !.via = "keywordsFile"]
    ELSE IF q.kind \in {"pages", "sitemap"} THEN PageHandler(q)
    ELSE AfterPage(q)

\* express.static on public, which runs before every route: for a
\* directory it redirects a path without a trailing slash to the path
\* with one (301) and serves the index.html of the directory for the path
\* with one; what it does not find it passes on
Static(q) ==
    IF q.kind = "pages" /\ fs.pdir.st # "none"
    THEN IF ~q.slash
         THEN Respond([q EXCEPT !.via = "static"], 301, <<"Redirecting to /pages/">>)
         ELSE IF fs.pdir.st = "index"
         THEN Respond([q EXCEPT !.via = "static"], 200, PagesIndexFile)
         ELSE q
    ELSE q

Dispatch(q) ==
    LET st == Static(q) IN IF st.pc = "done" THEN st ELSE Route(q)

\* the requests: GET /pages and GET /pages/, GET /pages/:slug, GET
\* /sitemap.xml, GET /api/search with or without a term, GET /keywords,
\* and a GET of a path of two segments that no route names
Requests ==
    { [IdleReq EXCEPT !.kind = "pages", !.slash = sl] : sl \in BOOLEAN }
    \cup { [IdleReq EXCEPT !.kind = "slug", !.slug = sl] : sl \in Slugs }
    \cup { [IdleReq EXCEPT !.kind = "search", !.term = t] : t \in Terms }
    \cup { [IdleReq EXCEPT !.kind = k] : k \in {"sitemap", "keywords", "other"} }

Arrive(r) ==
    /\ reqs[r].pc = "idle"
    /\ \E q \in Requests : reqs' = [reqs EXCEPT ![r] = Dispatch(q)]
    /\ UNCHANGED <<ver, dbReady, fs, fsChanges, rvars, xvars>>

\* a callback of fs.access that returns without next() when the file is
\* not there
PageAccessDone_Drop(q) ==
    IF fs.alt.st = "missing" THEN [q EXCEPT !.pc = "dropped"]
    ELSE [q EXCEPT !.pc = "pageSend"]

\* GET /:page of the second definition, the callback of fs.access: next()
\* when the file is not there, which leads on to servePages
PageAccessDone(q) ==
    IF fs.alt.st = "missing" THEN AfterPage(q)
    ELSE [q EXCEPT !.pc = "pageSend"]

PageAccess(r) ==
    /\ reqs[r].pc = "pageAccess"
    /\ reqs' = [reqs EXCEPT ![r] = PageAccessDone(@)]
    /\ UNCHANGED <<ver, dbReady, fs, fsChanges, rvars, xvars>>

\* GET /:page of the second definition, res.sendFile and its callback,
\* which passes an error to next
PageSendDone(q) ==
    IF fs.alt.st = "ok" THEN Respond(q, 200, AltPageFile)
    ELSE ExpressError(q, fs.alt.st)

PageSend(r) ==
    /\ reqs[r].pc = "pageSend"
    /\ reqs' = [reqs EXCEPT ![r] = PageSendDone(@)]
    /\ UNCHANGED <<ver, dbReady, fs, fsChanges, rvars, xvars>>

\* the continuation of await db.execute when it resolves
AfterRows(q, rows, date) ==
    IF Len(rows) > 0
    THEN [q EXCEPT !.pc = "readTpl", !.lookup = "found", !.post = Selected(rows[1]),
                   !.date = IF ver = 1 THEN date ELSE ""]
    ELSE [q EXCEPT !.pc = IF ver = 1 THEN "nfSend" ELSE "nfAccess", !.lookup = "empty"]

DbResolve(r) ==
    /\ reqs[r].pc = "db"
    /\ \E date \in Dates :
         reqs' = [reqs EXCEPT ![r] = AfterRows(@, table[@.slug], date)]
    /\ UNCHANGED <<ver, dbReady, fs, fsChanges, rvars, xvars>>

\* a servePages without the catch: the error reaches Express
CatchToDefault_Rethrow(q) == ExpressError(q, "unreadable")

\* a catch that calls db.execute once more before it gives up
CatchToDefault_Retry(q) ==
    IF Len(q.calls) = 1
    THEN [q EXCEPT !.pc = "db",
                   !.calls = Append(@, [sql |-> PageSql(ver), args |-> <<q.slug>>])]
    ELSE [q EXCEPT !.pc = "default"]

\* the catch of servePages: log and go on to the default page
CatchToDefault(q) == [q EXCEPT !.pc = "default"]

DbReject(r) ==
    /\ reqs[r].pc = "db"
    /\ \E e \in DbErrors :
         reqs' = [reqs EXCEPT ![r] = CatchToDefault([@ EXCEPT !.lookup = "failed"])]
    /\ UNCHANGED <<ver, dbReady, fs, fsChanges, rvars, xvars>>

\* a render that falls back to the unmodified template when a pattern of
\* the definition is not found in it
AfterReadFile_Fallback(q) ==
    IF fs.tpl.st # "ok" THEN CatchToDefault([q EXCEPT !.readFailed = TRUE])
    ELSE IF \A k \in 1..Len(Passes(ver)) : MatchOf(ver, Passes(ver)[k], fs.tpl.txt).start # 0
    THEN Respond(q, 200, Render(ver, fs.tpl.txt, q.post, q.date))
    ELSE Respond(q, 200, fs.tpl.txt)

\* a render out of a variable all requests share: the row the latest
\* lookup found
AfterReadFile_Shared(q) ==
    LET holders == { r \in DOMAIN reqs : reqs[r].lookup = "found" }
        last == CHOOSE r \in holders : \A o \in holders : r >= o
    IN IF fs.tpl.st = "ok"
       THEN Respond(q, 200, Render(ver, fs.tpl.txt, reqs[last].post, q.date))
       ELSE CatchToDefault([q EXCEPT !.readFailed = TRUE])

\* a render that keeps the page of a slug once it was built
AfterReadFile_Cached(q) ==
    LET built == { r \in DOMAIN reqs :
                     /\ reqs[r].pc = "done" /\ reqs[r].slug = q.slug
                     /\ reqs[r].lookup = "found" /\ reqs[r].status = 200
                     /\ ~reqs[r].readFailed }
    IN IF built # {} THEN Respond(q, 200, reqs[CHOOSE r \in built : TRUE].body)
       ELSE IF fs.tpl.st = "ok"
       THEN Respond(q, 200, Render(ver, fs.tpl.txt, q.post, q.date))
       ELSE CatchToDefault([q EXCEPT !.readFailed = TRUE])

\* the continuation of await fs.promises.readFile(filePath): the chain of
\* replace calls and res.send, or the throw into the catch
AfterReadFile(q) ==
    IF fs.tpl.st = "ok"
    THEN Respond(q, 200, Render(ver, fs.tpl.txt, q.post, q.date))
    ELSE CatchToDefault([q EXCEPT !.readFailed = TRUE])

ReadTpl(r) ==
    /\ reqs[r].pc = "readTpl"
    /\ reqs' = [reqs EXCEPT ![r] = AfterReadFile(@)]
    /\ UNCHANGED <<ver, dbReady, fs, fsChanges, rvars, xvars>>

\* first definition: res.status(404).sendFile('404.html', callback)
NotFound1(q) ==
    IF fs.nf.st = "ok" THEN Respond(q, 404, NotFoundFile)
    ELSE Respond(q, 404, <<"404 - Page not found">>)

NfSend(r) ==
    /\ reqs[r].pc = "nfSend"
    /\ reqs' = [reqs EXCEPT ![r] = NotFound1(@)]
    /\ UNCHANGED <<ver, dbReady, fs, fsChanges, rvars, xvars>>

\* second definition: await fsPromises.access(notFoundPath)
NotFoundAccess2(q) ==
    IF fs.nf.st = "missing" THEN Respond(q, 404, <<"Page not found">>)
    ELSE [q EXCEPT !.pc = "nfSend2"]

NfAccess(r) ==
    /\ reqs[r].pc = "nfAccess"
    /\ reqs' = [reqs EXCEPT ![r] = NotFoundAccess2(@)]
    /\ UNCHANGED <<ver, dbReady, fs, fsChanges, rvars, xvars>>

\* second definition: res.status(404).sendFile(notFoundPath), no callback:
\* an error of the read goes to next
NotFoundSend2(q) ==
    IF fs.nf.st = "ok" THEN Respond(q, 404, NotFoundFile)
    ELSE ExpressError(q, fs.nf.st)

NfSend2(r) ==
    /\ reqs[r].pc = "nfSend2"
    /\ reqs' = [reqs EXCEPT ![r] = NotFoundSend2(@)]
    /\ UNCHANGED <<ver, dbReady, fs, fsChanges, rvars, xvars>>

\* a callback that answers 404 to every error of the read
ServeDefault_All404(q) ==
    IF fs.tpl.st = "ok" THEN Respond(q, 200, fs.tpl.txt)
    ELSE Respond(q, 404, <<"pages.html not found">>)

\* res.sendFile(filePath, callback): the default page, 404 on ENOENT and
\* 500 on any other error
ServeDefault(q) ==
    IF fs.tpl.st = "ok" THEN Respond(q, 200, fs.tpl.txt)
    ELSE IF fs.tpl.st = "missing" THEN Respond(q, 404, <<"pages.html not found">>)
    ELSE Respond(q, 500, <<"Error loading page">>)

SendDefault(r) ==
    /\ reqs[r].pc = "default"
    /\ reqs' = [reqs EXCEPT ![r] = ServeDefault(@)]
    /\ UNCHANGED <<ver, dbReady, fs, fsChanges, rvars, xvars>>

\* the rows a search term selects: title LIKE %term% OR content LIKE %term%
AllRows == Table["one"] \o Table["two"]

Holds(text, term) ==
    \E i \in 1..(Len(text) - Len(term) + 1) : SubSeq(text, i, i + Len(term) - 1) = term

SearchRows(term) ==
    SelectSeq(AllRows, LAMBDA row : Holds(row.title, term) \/ Holds(row.content, term))

\* the continuation of await db.execute of GET /api/search
SearchDone(q) ==
    LET rows == SearchRows(q.term)
        posts == [k \in 1..Len(rows) |->
                    <<"{">> \o Str(rows[k].title) \o <<",">> \o Str(rows[k].content) \o <<"}">>]
    IN RespondType(q, 200, <<"success">> \o Concat(posts), "application/json")

SearchResolve(r) ==
    /\ reqs[r].pc = "searchDb"
    /\ reqs' = [reqs EXCEPT ![r] = SearchDone(@)]
    /\ UNCHANGED <<ver, dbReady, fs, fsChanges, rvars, xvars>>

SearchReject(r) ==
    /\ reqs[r].pc = "searchDb"
    /\ \E e \in DbErrors : reqs' = [reqs EXCEPT ![r] = SearchCatch(@, e)]
    /\ UNCHANGED <<ver, dbReady, fs, fsChanges, rvars, xvars>>

\* GET /sitemap.xml: res.sendFile with the content type application/xml
\* and a callback that answers 404 to every error
SitemapDone(q) ==
    IF fs.sm.st = "ok" THEN RespondType(q, 200, SitemapFile, "application/xml")
    ELSE Respond(q, 404, <<"Sitemap not found">>)

SitemapSend(r) ==
    /\ reqs[r].pc = "sitemapSend"
    /\ reqs' = [reqs EXCEPT ![r] = SitemapDone(@)]
    /\ UNCHANGED <<ver, dbReady, fs, fsChanges, rvars, xvars>>

\* the catch-all GET *: fs.existsSync(indexPath), then res.sendFile
\* without a callback, or 404
CatchAllDone(q) ==
    IF fs.idx.st = "missing" THEN Respond(q, 404, <<"Not Found">>)
    ELSE [q EXCEPT !.pc = "indexSend"]

CatchAll(r) ==
    /\ reqs[r].pc = "catchAll"
    /\ reqs' = [reqs EXCEPT ![r] = CatchAllDone(@)]
    /\ UNCHANGED <<ver, dbReady, fs, fsChanges, rvars, xvars>>

IndexSendDone(q) ==
    IF fs.idx.st = "ok" THEN Respond(q, 200, IndexFile)
    ELSE ExpressError(q, fs.idx.st)

IndexSend(r) ==
    /\ reqs[r].pc = "indexSend"
    /\ reqs' = [reqs EXCEPT ![r] = IndexSendDone(@)]
    /\ UNCHANGED <<ver, dbReady, fs, fsChanges, rvars, xvars>>

\* the middleware of the second definition that answers every request
\* that reaches it: res.status(404).sendFile(notFoundPath, callback)
NotFoundMiddleware(q) ==
    IF fs.nf.st = "ok" THEN Respond(q, 404, NotFoundFile)
    ELSE Respond(q, 404, <<"404 - Page not found">>)

Mw404(r) ==
    /\ reqs[r].pc = "mw404"
    /\ reqs' = [reqs EXCEPT ![r] = NotFoundMiddleware(@)]
    /\ UNCHANGED <<ver, dbReady, fs, fsChanges, rvars, xvars>>

\* GET /keywords of the first definition, the handler registered first:
\* the lines of SCRAP/KEYWORDS.txt, none when the read fails, in a page
\* sent with res.send
KeywordsPage(q) ==
    Respond(q, 200, <<"Manage Keywords">>
                    \o (IF kw.file.there THEN kw.file.lines ELSE <<>>))

KwPage(r) ==
    /\ reqs[r].pc = "kwPage"
    /\ reqs' = [reqs EXCEPT ![r] = KeywordsPage(@)]
    /\ UNCHANGED <<ver, dbReady, fs, fsChanges, rvars, xvars>>

\* GET /keywords of the second definition: res.sendFile of
\* public/keywords.html without a callback, st the state the read finds
\* the file in
KeywordsFileDone(q, st) ==
    IF st = "ok" THEN Respond(q, 200, KeywordsFile) ELSE ExpressError(q, st)

KwSend(r) ==
    /\ reqs[r].pc = "kwSend"
    /\ \E st \in FileStates : reqs' = [reqs EXCEPT ![r] = KeywordsFileDone(@, st)]
    /\ UNCHANGED <<ver, dbReady, fs, fsChanges, rvars, xvars>>

\* the file the next step of a request reads
Reads(pc) ==
    CASE pc \in {"readTpl", "default"} -> {"tpl"}
      [] pc \in {"nfSend", "nfAccess", "nfSend2", "mw404"} -> {"nf"}
      [] pc \in {"pageAccess", "pageSend"} -> {"alt"}
      [] pc = "sitemapSend" -> {"sm"}
      [] pc \in {"catchAll", "indexSend"} -> {"idx"}
      [] OTHER -> {}

\* a file of the site is removed, restored or made unreadable before a
\* step of a request that reads it (a change before the first request is
\* another start of the server); the directory public/pages stays as it is
FsChange ==
    /\ fsChanges < MaxFsChanges
    /\ \E r \in Reqs : \E f \in Reads(reqs[r].pc) : \E st \in FileStates :
         /\ fs[f].st # st
         /\ (f = "alt" /\ st # "missing") => fs.pdir.st # "none"
         /\ fs' = [fs EXCEPT ![f].st = st]
    /\ fsChanges' = fsChanges + 1
    /\ UNCHANGED <<ver, dbReady, reqs, rvars, xvars>>

Next ==
    \/ \E r \in Reqs : Arrive(r)
    \/ \E r \in Reqs : PageAccess(r)
    \/ \E r \in Reqs : PageSend(r)
    \/ \E r \in Reqs : DbResolve(r)
    \/ \E r \in Reqs : DbReject(r)
    \/ \E r \in Reqs : ReadTpl(r)
    \/ \E r \in Reqs : NfSend(r)
    \/ \E r \in Reqs : NfAccess(r)
    \/ \E r \in Reqs : NfSend2(r)
    \/ \E r \in Reqs : SendDefault(r)
    \/ \E r \in Reqs : SearchResolve(r)
    \/ \E r \in Reqs : SearchReject(r)
    \/ \E r \in Reqs : SitemapSend(r)
    \/ \E r \in Reqs : CatchAll(r)
    \/ \E r \in Reqs : IndexSend(r)
    \/ \E r \in Reqs : Mw404(r)
    \/ \E r \in Reqs : KwPage(r)
    \/ \E r \in Reqs : KwSend(r)
    \/ FsChange

Spec == Init /\ [][Next]_vars

(***************************************************************************)
(* Concurrent requests to servePages: several requests for /pages and      *)
(* /pages/:slug under way at once, each suspended at its await of          *)
(* db.execute or of a file operation, over a template file and a table     *)
(* that change between requests.                                           *)
(***************************************************************************)
\* the requests under way at once
NConc == 2
Conc == 1..NConc

\* the server with the database configured, pages.html in any state,
\* 404.html there or not, no directory public/pages, and no request yet
ConcInit ==
    /\ ver \in {1, 2}
    /\ dbReady = TRUE
    /\ fs \in [tpl : [st : FileStates, txt : {Page(Old, Old, Old, Old, TRUE)}],
                nf : [st : {"ok", "missing"}], alt : [st : {"missing"}],
                sm : [st : {"ok"}], idx : [st : {"ok"}],
                pdir : [st : {"none"}]]
    /\ fsChanges = 0
    /\ reqs = [r \in Conc |-> IdleReq]
    /\ table = Table
    /\ kw = KwIdle
    /\ RenderIdle

\* GET /pages and GET /pages/:slug
ResolverRequests ==
    { [IdleReq EXCEPT !.kind = "pages"] }
    \cup { [IdleReq EXCEPT !.kind = "slug", !.slug = sl] : sl \in Slugs }

ArriveResolver(r) ==
    /\ reqs[r].pc = "idle"
    /\ \E q \in ResolverRequests : reqs' = [reqs EXCEPT ![r] = Dispatch(q)]
    /\ UNCHANGED <<ver, dbReady, fs, fsChanges, rvars, xvars>>

\* no request is between its arrival and its response
Quiet == \A r \in DOMAIN reqs : reqs[r].pc \in {"idle", "done"}

\* pages.html is replaced by another text between two requests
TplEdit ==
    /\ fsChanges < MaxFsChanges
    /\ Quiet
    /\ \E txt \in TplFiles :
         /\ txt # fs.tpl.txt
         /\ fs' = [fs EXCEPT !.tpl.txt = txt]
    /\ fsChanges' = fsChanges + 1
    /\ UNCHANGED <<ver, dbReady, reqs, rvars, xvars>>

\* the row a post is updated to
NewRow == [title |-> <<"c">>, content |-> <<"d">>, created_at |-> NoDate]

\* the row of the slug "one" is updated between two requests
RowEdit ==
    /\ fsChanges < MaxFsChanges
    /\ Quiet
    /\ table["one"] # <<NewRow>>
    /\ table' = [table EXCEPT !["one"] = <<NewRow>>]
    /\ fsChanges' = fsChanges + 1
    /\ UNCHANGED <<ver, dbReady, fs, reqs, rvars, kw>>

ConcNext ==
    \/ \E r \in Conc : ArriveResolver(r)
    \/ \E r \in Conc : PageAccess(r)
    \/ \E r \in Conc : DbResolve(r)
    \/ \E r \in Conc : DbReject(r)
    \/ \E r \in Conc : ReadTpl(r)
    \/ \E r \in Conc : NfSend(r)
    \/ \E r \in Conc : NfAccess(r)
    \/ \E r \in Conc : NfSend2(r)
    \/ \E r \in Conc : SendDefault(r)
    \/ TplEdit
    \/ RowEdit

SpecConc == ConcInit /\ [][ConcNext]_vars

(***************************************************************************)
(* The requests GET /pages, GET /pages/:slug and GET /:page under the      *)
(* condition that every call of db.execute resolves or rejects and every   *)
(* file operation completes or fails: a request that is under way takes    *)
(* its next step.                                                          *)
(***************************************************************************)
\* a pages.html without any of the regions
PlainFile == <<"<html>", "</html>">>

LiveInit ==
    /\ ver \in {1, 2}
    /\ dbReady \in BOOLEAN
    /\ fs \in { f \in [tpl : [st : FileStates, txt : {PlainFile}],
                       nf : [st : FileStates], alt : [st : FileStates],
                       sm : [st : {"ok"}], idx : [st : {"ok"}],
                       pdir : [st : DirStates]] :
                    f.pdir.st = "none" => f.alt.st = "missing" }
    /\ fsChanges = 0
    /\ reqs = [r \in Reqs |-> IdleReq]
    /\ table = Table
    /\ kw = KwIdle
    /\ RenderIdle

\* GET /pages and GET /pages/, GET /pages/:slug, and GET /sitemap.xml, a
\* path of one segment with an extension
PageRequests ==
    { [IdleReq EXCEPT !.kind = "pages", !.slash = sl] : sl \in BOOLEAN }
    \cup { [IdleReq EXCEPT !.kind = "slug", !.slug = sl] : sl \in Slugs }
    \cup { [IdleReq EXCEPT !.kind = "sitemap"] }

ArrivePage(r) ==
    /\ reqs[r].pc = "idle"
    /\ \E q \in PageRequests : reqs' = [reqs EXCEPT ![r] = Dispatch(q)]
    /\ UNCHANGED <<ver, dbReady, fs, fsChanges, rvars, xvars>>

\* the next step of request r: the promise it awaits settles, or the
\* callback of its file operation is called
Progress(r) ==
    \/ PageAccess(r)
    \/ PageSend(r)
    \/ DbResolve(r)
    \/ DbReject(r)
    \/ ReadTpl(r)
    \/ NfSend(r)
    \/ NfAccess(r)
    \/ NfSend2(r)
    \/ SendDefault(r)
    \/ SitemapSend(r)
    \/ Mw404(r)

LiveNext ==
    \/ \E r \in Reqs : ArrivePage(r)
    \/ \E r \in Reqs : PageAccess(r)
    \/ \E r \in Reqs : PageSend(r)
    \/ \E r \in Reqs : DbResolve(r)
    \/ \E r \in Reqs : DbReject(r)
    \/ \E r \in Reqs : ReadTpl(r)
    \/ \E r \in Reqs : NfSend(r)
    \/ \E r \in Reqs : NfAccess(r)
    \/ \E r \in Reqs : NfSend2(r)
    \/ \E r \in Reqs : SendDefault(r)
    \/ \E r \in Reqs : SitemapSend(r)
    \/ \E r \in Reqs : Mw404(r)

SpecLive ==
    /\ LiveInit
    /\ [][LiveNext]_vars
    /\ \A r \in Reqs : WF_vars(Progress(r))

(***************************************************************************)
(* GET and POST /api/keywords of the second definition over                *)
(* SCRAP/KEYWORDS.txt, one step per await.  The file, once there, can be   *)
(* read and written; the directory can always be created.                  *)
(***************************************************************************)
\* a body of POST /api/keywords whose keywords is not an array
NotArray == <<"not an array">>

KeywordsInit ==
    /\ ver = 2
    /\ dbReady = TRUE
    /\ fs = [tpl |-> [st |-> "ok", txt |-> Page(Old, Old, Old, Old, TRUE)],
             nf |-> [st |-> "ok"], alt |-> [st |-> "missing"],
             sm |-> [st |-> "ok"], idx |-> [st |-> "ok"], pdir |-> [st |-> "none"]]
    /\ fsChanges = 0
    /\ reqs = [r \in Reqs |-> IdleReq]
    /\ table = Table
    /\ \E f \in {[there |-> FALSE, lines |-> <<>>], [there |-> TRUE, lines |-> <<>>]} :
         kw = [KwIdle EXCEPT !.file = f]
    /\ RenderIdle

\* app.get('/api/keywords') up to await fsPromises.access
KwGetArrive(g) ==
    /\ kw.get[g].pc = "idle"
    /\ kw' = [kw EXCEPT !.get[g].pc = "access"]
    /\ UNCHANGED <<ver, dbReady, fs, fsChanges, reqs, rvars, table>>

\* the continuation of await fsPromises.access(keywordsPath, R_OK | W_OK):
\* on ENOENT the branch that creates the file, up to await mkdir
KwGetAccess(g) ==
    /\ kw.get[g].pc = "access"
    /\ kw' = [kw EXCEPT !.get[g].pc = IF kw.file.there THEN "read" ELSE "mkdir"]
    /\ UNCHANGED <<ver, dbReady, fs, fsChanges, reqs, rvars, table>>

\* the continuation of await fsPromises.mkdir(dir, {recursive: true}), up
\* to await writeFile
KwGetMkdir(g) ==
    /\ kw.get[g].pc = "mkdir"
    /\ kw' = [kw EXCEPT !.get[g].pc = "write"]
    /\ UNCHANGED <<ver, dbReady, fs, fsChanges, reqs, rvars, table>>

\* await fsPromises.writeFile(keywordsPath, ''): the file is created, or
\* truncated when it is there by now
KwGetWrite(g) ==
    /\ kw.get[g].pc = "write"
    /\ kw' = [kw EXCEPT !.get[g].pc = "read",
                        !.file = [there |-> TRUE, lines |-> <<>>]]
    /\ UNCHANGED <<ver, dbReady, fs, fsChanges, reqs, rvars, table>>

\* await fsPromises.readFile(keywordsPath), the split into lines, and
\* res.json({keywords}); 500 when the read fails
KwGetRead(g) ==
    /\ kw.get[g].pc = "read"
    /\ kw' = [kw EXCEPT !.get[g] =
                 IF kw.file.there
                 THEN [pc |-> "done", status |-> 200, body |-> kw.file.lines]
                 ELSE [pc |-> "done", status |-> 500,
                       body |-> <<"Failed to read keywords file">>]]
    /\ UNCHANGED <<ver, dbReady, fs, fsChanges, reqs, rvars, table>>

\* app.post('/api/keywords') up to await mkdir: 400 when keywords is not
\* an array
KwPostArrive ==
    /\ kw.post.pc = "idle"
    /\ \E list \in KeywordLists \cup {NotArray} :
         kw' = [kw EXCEPT !.post =
                  IF list = NotArray
                  THEN [pc |-> "done", list |-> <<>>, status |-> 400]
                  ELSE [pc |-> "mkdir", list |-> list, status |-> 0]]
    /\ UNCHANGED <<ver, dbReady, fs, fsChanges, reqs, rvars, table>>

\* the continuation of await fsPromises.mkdir, up to await writeFile
KwPostMkdir ==
    /\ kw.post.pc = "mkdir"
    /\ kw' = [kw EXCEPT !.post.pc = "write"]
    /\ UNCHANGED <<ver, dbReady, fs, fsChanges, reqs, rvars, table>>

\* await fsPromises.writeFile(keywordsPath, keywords.join('\n')), then
\* res.json({success: true})
KwPostWrite ==
    /\ kw.post.pc = "write"
    /\ kw' = [kw EXCEPT !.post.pc = "done", !.post.status = 200,
                        !.file = [there |-> TRUE, lines |-> kw.post.list],
                        !.saved = kw.post.list]
    /\ UNCHANGED <<ver, dbReady, fs, fsChanges, reqs, rvars, table>>

KeywordsNext ==
    \/ \E g \in Gets : KwGetArrive(g)
    \/ \E g \in Gets : KwGetAccess(g)
    \/ \E g \in Gets : KwGetMkdir(g)
    \/ \E g \in Gets : KwGetWrite(g)
    \/ \E g \in Gets : KwGetRead(g)
    \/ KwPostArrive
    \/ KwPostMkdir
    \/ KwPostWrite

SpecKeywords == KeywordsInit /\ [][KeywordsNext]_vars

(***************************************************************************)
(* Properties                                                              *)
(***************************************************************************)
NoTok(s, T) == \A k \in 1..Len(s) : s[k] \notin T

\* how often the text sub stands in s
Count(sub, s) ==
    Cardinality({ i \in 1..(Len(s) - Len(sub) + 1) : SubSeq(s, i, i + Len(sub) - 1) = sub })

Done(r) == reqs[r].pc = "done"

\* what GET /pages is answered against the files as they are
PagesAnswer ==
    LET q0 == Dispatch([IdleReq EXCEPT !.kind = "pages"])
        q1 == IF q0.pc = "pageAccess" THEN PageAccessDone(q0) ELSE q0
        q2 == IF q1.pc = "pageSend" THEN PageSendDone(q1) ELSE q1
    IN IF q2.pc = "default" THEN ServeDefault(q2) ELSE q2

\* C1: when the lookup of GET /pages/:slug fails, the response has the
\* status and the body of GET /pages against the same files: 200 with the
\* unmodified default template when that file is there.
C1_FailedLookupEqualsPages ==
    \A r \in Reqs :
        (Done(r) /\ reqs[r].lookup = "failed" /\ fsChanges = 0)
        => /\ reqs[r].status = PagesAnswer.status
           /\ reqs[r].body = PagesAnswer.body
           /\ (fs.tpl.st = "ok" => reqs[r].status = 200 /\ reqs[r].body = fs.tpl.txt)

\* C2: a lookup with zero rows is always answered 404, with the static
\* not-found page when that file exists and a literal 404 text otherwise.
C2_EmptyLookupIs404 ==
    \A r \in Reqs :
        (Done(r) /\ reqs[r].lookup = "empty")
        => /\ reqs[r].status = 404
           /\ reqs[r].body \in {NotFoundFile, <<"404 - Page not found">>, <<"Page not found">>}
           /\ (fsChanges = 0 /\ fs.nf.st = "missing" => reqs[r].body # NotFoundFile)

PlainTitle(t) == t # Null /\ NoTok(t, LtTokens \cup {"$"})
PlainContent(c) == c # Null /\ NoTok(c, {"$"})

\* a template with each region the patterns of the definition match, once
FullTemplate(v, t) ==
    \/ t = Page(Old, Old, Old, Old, TRUE)
    \/ v = 1 /\ t = Page(Old, Old, Old, Old, FALSE)

\* the page a template file of TplFiles turns into, region by region: the
\* first definition fills title, heading, date and the whole content div;
\* the second fills title, heading and the lead paragraph of the div
Filled(v, t, post, date) ==
    LET tt == post.title \o <<LV>>
        hh == post.title
        dd == <<date>>
        cc == post.content
    IN CASE t = Page(Old, Old, Old, Old, FALSE) ->
                IF v = 1 THEN Page(tt, hh, dd, cc, FALSE) ELSE Page(tt, hh, Old, Old, FALSE)
         [] t = Page(Old, Old, Old, Old, TRUE) ->
                IF v = 1 THEN Page(tt, hh, dd, cc, FALSE) ELSE Page(tt, hh, Old, cc, TRUE)
         [] t = PageNoHeading(Old, Old, Old, TRUE) ->
                IF v = 1 THEN PageNoHeading(tt, dd, cc, FALSE)
                ELSE PageNoHeading(tt, Old, cc, TRUE)

C4_ReadFailureIs500 ==
    \A r \in Reqs : (Done(r) /\ reqs[r].readFailed) => reqs[r].status = 500

\* C4 amended: when the rows are there and loading the template fails, the
\* catch of the resolver takes the failure and the request goes on to the
\* default page: 404 "pages.html not found" when the file is missing, 500
\* "Error loading page" on another error, 200 with the unmodified template
\* when the file has become readable in between.
C4_ReadFailureServesDefault ==
    \A r \in Reqs :
        reqs[r].readFailed
        => \/ reqs[r].pc = "default"
           \/ /\ Done(r)
              /\ <<reqs[r].status, reqs[r].body>> \in
                    { <<200, fs.tpl.txt>>, <<404, <<"pages.html not found">> >>,
                      <<500, <<"Error loading page">> >> }
              /\ (fsChanges = 0 /\ fs.tpl.st = "missing" => reqs[r].status = 404)
              /\ (fsChanges = 0 /\ fs.tpl.st = "unreadable" => reqs[r].status = 500)

C4_Witness ==
    \E r \in Reqs :
        /\ Done(r) /\ reqs[r].readFailed /\ reqs[r].lookup = "found"
        /\ reqs[r].status = 404 /\ reqs[r].body = <<"pages.html not found">>

\* C5: the default page is answered 200 with the template when the file
\* can be read, 404 exactly when the read fails with ENOENT, and 500 on
\* every other error of the read.
C5_DefaultPageStatus ==
    [][\A r \in Reqs :
          (reqs[r].pc = "default" /\ reqs'[r].pc = "done")
          => /\ (fs.tpl.st = "ok" => reqs'[r].status = 200 /\ reqs'[r].body = fs.tpl.txt)
             /\ (reqs'[r].status = 404 <=> fs.tpl.st = "missing")
             /\ (fs.tpl.st = "unreadable" => reqs'[r].status = 500)]_vars

C5_Witness ==
    \E r \in Reqs :
        /\ Done(r) /\ reqs[r].lookup = "failed" /\ fsChanges = 0
        /\ fs.tpl.st = "unreadable" /\ reqs[r].status = 500
        /\ reqs[r].body = <<"Error loading page">>

\* C6: GET /pages is answered 200 with the unmodified default template
\* whenever the default template file is there.
C6_PagesIsDefaultTemplate ==
    \A r \in Reqs :
        (Done(r) /\ reqs[r].kind = "pages" /\ fsChanges = 0 /\ fs.tpl.st = "ok")
        => reqs[r].status = 200 /\ reqs[r].body = fs.tpl.txt

Markers == {TO, TC, HO, HC, SO, SC, DO, DA, DC, PO, PC}

\* a template whose regions stand one after the other, none inside another
FlatSegs == Segs \ { <<DO, DA>>, <<DC>> }

RECURSIVE Flat(_)
Flat(s) ==
    \/ s = <<>>
    \/ \E g \in FlatSegs :
          /\ Len(g) <= Len(s)
          /\ SubSeq(s, 1, Len(g)) = g
          /\ Flat(SubSeq(s, Len(g) + 1, Len(s)))

CleanPost(post) ==
    /\ NoTok(Str(post.title), LtTokens \cup {"$"})
    /\ NoTok(Str(post.content), Markers \cup {"$"})

C8_NoPartialSubstitution ==
    \A r \in Reqs :
        (Done(r) /\ reqs[r].kind = "slug" /\ reqs[r].status = 200)
        => IF \A k \in 1..Len(Passes(ver)) :
                  MatchOf(ver, Passes(ver)[k], fs.tpl.txt).start # 0
           THEN reqs[r].body \in
                    {Render(ver, fs.tpl.txt, reqs[r].post, reqs[r].date), fs.tpl.txt}
           ELSE reqs[r].body = fs.tpl.txt

\* C8 amended: a 200 body of GET /pages/:slug is the unmodified default
\* template when the lookup or the read of the template failed, and
\* otherwise the template with every substitution applied whose pattern
\* matches, the regions of the other patterns left as they are; a pattern
\* that does not match never makes the resolver send the default template.
C8_SubstitutedWhereMatched ==
    \A r \in Reqs :
        (Done(r) /\ reqs[r].kind = "slug" /\ reqs[r].status = 200)
        => IF reqs[r].lookup = "found" /\ ~reqs[r].readFailed
           THEN (PlainTitle(reqs[r].post.title) /\ PlainContent(reqs[r].post.content))
                => reqs[r].body = Filled(ver, fs.tpl.txt, reqs[r].post, reqs[r].date)
           ELSE reqs[r].body = fs.tpl.txt

C8_Witness ==
    \E r \in Reqs :
        /\ Done(r) /\ reqs[r].lookup = "found" /\ reqs[r].status = 200
        /\ reqs[r].slug = "one"
        /\ fs.tpl.txt = PageNoHeading(Old, Old, Old, TRUE)
        /\ reqs[r].body # fs.tpl.txt
        /\ Count(reqs[r].post.content, reqs[r].body) = 1

\* the substitutions of the log, by name
LogNames == [k \in 1..Len(rlog) |-> rlog[k].pass]

\* a step of the log left everything outside the leftmost match of its
\* pattern as it was, and the text as it was when there is no match
OnlyFirstRegion(e) ==
    LET m == MatchOf(ver, e.pass, e.before)
        tail == Len(e.before) - m.end
    IN IF m.start = 0 THEN e.after = e.before
       ELSE /\ Len(e.after) >= m.start + tail
            /\ SubSeq(e.after, 1, m.start) = SubSeq(e.before, 1, m.start)
            /\ SubSeq(e.after, Len(e.after) - tail + 1, Len(e.after))
                 = SubSeq(e.before, m.end + 1, Len(e.before))

\* C9: a pattern that does not match skips only its own substitution: the
\* text is left as it was by that call, every other substitution of the
\* definition is still made on it, and the render is sent with status 200.
C9_UnmatchedPatternSkipped ==
    /\ \A k \in 1..Len(rlog) :
          /\ OnlyFirstRegion(rlog[k])
          /\ rlog[k].pass = Passes(ver)[k]
          /\ rlog[k].before = (IF k = 1 THEN rtpl ELSE rlog[k-1].after)
    /\ (rpc \in {"send", "sent"} => Len(rlog) = Len(Passes(ver)) /\ rcur = rlog[Len(rlog)].after)
    /\ (rpc = "sent" => rstatus = 200)

C9_Witness ==
    /\ rpc = "sent" /\ rstatus = 200
    /\ \E k \in 1..Len(rlog) : MatchOf(ver, rlog[k].pass, rlog[k].before).start = 0
    /\ \E k \in 1..Len(rlog) :
          /\ MatchOf(ver, rlog[k].pass, rlog[k].before).start # 0
          /\ rlog[k].after # rlog[k].before
          /\ \E j \in 1..(k-1) : MatchOf(ver, rlog[j].pass, rlog[j].before).start = 0

\* C10: every render makes the four substitutions title, heading, date,
\* content in that order, each once and each on the first region that
\* matches only.
C10_FourPassesInOrder ==
    rpc = "sent"
    => /\ LogNames = <<"title", "heading", "date", "content">>
       /\ \A k \in 1..Len(rlog) : OnlyFirstRegion(rlog[k])

\* C11: the body of a render holds the content of the post as it is
\* stored, token for token, whatever the content is: nothing of it, a
\* sequence that starts with '$' included, is expanded, dropped or rewritten.
C11_ContentVerbatim ==
    (/\ rpc = "sent"
     /\ rpost.content # Null
     /\ MatchOf(ver, "content", rlog[Len(rlog)].before).start # 0)
    => Count(rpost.content, rcur) >= 1

\* the number of placeholders of an SQL text
Placeholders(sql) == Cardinality({ i \in 1..Len(sql) : sql[i] = Placeholder })

\* the values a caller can send: the slugs and the search terms
CallerValues == Slugs \cup UNION { { t[i] : i \in 1..Len(t) } : t \in Terms }

\* C12: the SQL text of every call of db.execute is a constant of its
\* endpoint, the same for every slug and every search term; the value of
\* the caller stands in the argument list only, which has as many
\* elements as the SQL text has placeholders.
C12_SqlTextConstant ==
    \A r \in Reqs : \A k \in 1..Len(reqs[r].calls) :
        LET c == reqs[r].calls[k] IN
        /\ c.sql = (IF reqs[r].kind = "slug" THEN PageSql(ver) ELSE SearchSql)
        /\ NoTok(c.sql, CallerValues)
        /\ Len(c.args) = Placeholders(c.sql)
        /\ reqs[r].kind = "slug" => c.args = <<reqs[r].slug>>
        /\ reqs[r].kind = "search"
             => \A i \in 1..Len(c.args) : c.args[i] = <<"%">> \o reqs[r].term \o <<"%">>

C12_Witness ==
    \E r \in Reqs :
        /\ reqs[r].kind = "slug" /\ reqs[r].slug = "two" /\ Done(r)
        /\ Len(reqs[r].calls) = 1
        /\ reqs[r].calls[1].args = <<"two">>
        /\ Placeholders(reqs[r].calls[1].sql) = 1

\* C13: the /pages rule comes before the /:page rule and the first rule
\* that matches wins: every GET /pages is answered by the page resolver,
\* never by the /:page handler or another handler, whatever the files are.
C13_PagesHandledByResolver ==
    \A r \in Reqs :
        (Done(r) /\ reqs[r].kind = "pages") => reqs[r].via = "resolver"

\* the step that sends the response of request r
Answers(r) == reqs[r].pc # "done" /\ reqs'[r].pc = "done"

\* C14: GET /sitemap.xml is answered 200 with the sitemap file and the
\* content type application/xml whenever the file is there, and 404
\* exactly when it is not, in each definition of the server.
C14_SitemapServed ==
    [][\A r \in Reqs :
          (Answers(r) /\ reqs'[r].kind = "sitemap")
          => /\ fs.sm.st # "missing"
                 => /\ reqs'[r].status = 200
                    /\ reqs'[r].body = SitemapFile
                    /\ reqs'[r].ctype = "application/xml"
             /\ reqs'[r].status = 404 <=> fs.sm.st = "missing"]_vars

\* C15: a GET that no earlier route matches is answered by the catch-all:
\* 200 with the root default document when it is there, 404 otherwise.
C15_CatchAllServesIndex ==
    [][\A r \in Reqs :
          (Answers(r) /\ reqs'[r].kind = "other")
          => /\ reqs'[r].via = "catchAll"
             /\ fs.idx.st # "missing"
                 => reqs'[r].status = 200 /\ reqs'[r].body = IndexFile
             /\ fs.idx.st = "missing" => reqs'[r].status = 404]_vars

\* C17: every response to GET /pages, GET /pages/:slug, GET /:page, GET
\* /sitemap.xml and the catch-all has status 200, 404 or 500, whatever the
\* database answers and whatever the files are.
C17_StatusCodes ==
    \A r \in Reqs :
        (Done(r) /\ reqs[r].kind \in {"pages", "slug", "sitemap", "other"})
        => reqs[r].status \in {200, 404, 500}

\* C20: no body sent to a client holds the text of a database error: the
\* response to a failed query is the same whatever the error says.
C20_NoDbErrorText ==
    \A r \in Reqs : Done(r) => NoTok(reqs[r].body, DbErrors)

\* C16 as stated: GET /:page of the second definition serves
\* pages/<page>.html when that file exists and passes the request on
\* without sending anything when it does not; a name with an extension
\* is passed on and no file is looked for.
C16_PageServedOrPassedOn ==
    [][\A r \in Reqs :
          ver = 2
          => /\ (reqs[r].pc = "idle" /\ reqs'[r].kind = "sitemap")
                 => reqs'[r].pc = "mw404"
             /\ (reqs[r].pc = "pageAccess" /\ reqs'[r].pc # "pageAccess")
                 => IF fs.alt.st = "missing"
                    THEN reqs'[r].pc # "done" /\ reqs'[r].via # "page"
                    ELSE reqs'[r].pc = "pageSend"
             /\ (reqs[r].pc = "pageSend" /\ reqs'[r].pc = "done" /\ fs.alt.st # "missing")
                 => reqs'[r].status = 200 /\ reqs'[r].body = AltPageFile]_vars

\* C16 amended: GET /:page of the second definition passes a name with an
\* extension on and looks for no file; for a name without one it passes
\* the request on without sending anything when pages/<page>.html is not
\* there, and sends the file with status 200 when it is there and can be
\* read; when the file is there and sending it fails, the error goes to
\* Express, which answers with the status of the error (500, or 404 when
\* the file has gone in between), and no later rule runs.
C16_PageServedPassedOnOrFailed ==
    [][\A r \in Reqs :
          ver = 2
          => /\ (reqs[r].pc = "idle" /\ reqs'[r].kind = "sitemap")
                 => reqs'[r].pc = "mw404"
             /\ (reqs[r].pc = "pageAccess" /\ reqs'[r].pc # "pageAccess")
                 => IF fs.alt.st = "missing"
                    THEN reqs'[r].pc # "done" /\ reqs'[r].via # "page"
                    ELSE reqs'[r].pc = "pageSend"
             /\ (reqs[r].pc = "pageSend" /\ reqs'[r].pc = "done")
                 => /\ reqs'[r].via = "page"
                    /\ <<reqs'[r].status, reqs'[r].body>> =
                         CASE fs.alt.st = "ok" -> <<200, AltPageFile>>
                           [] fs.alt.st = "missing" -> <<404, <<"express error page">> >>
                           [] OTHER -> <<500, <<"express error page">> >>]_vars

C16_Witness ==
    \E r \in Reqs :
        /\ ver = 2 /\ Done(r) /\ reqs[r].kind = "pages" /\ reqs[r].via = "page"
        /\ reqs[r].status = 500 /\ fs.alt.st = "unreadable"

\* C18 as stated: a request to the page resolver calls the database at
\* most once: never without a slug, exactly once with a slug.
C18_OneDbCall ==
    \A r \in Reqs :
        /\ Len(reqs[r].calls) <= 1
        /\ reqs[r].kind = "pages" => Len(reqs[r].calls) = 0
        /\ (reqs[r].kind = "slug" /\ reqs[r].pc # "idle") => Len(reqs[r].calls) = 1

\* C18 amended: a request to the page resolver calls the database at most
\* once and never again after a failure or a timeout: never without a
\* slug, exactly once with a slug when the database is configured, and
\* never when it is not configured.
C18_OneDbCallWhenConfigured ==
    \A r \in Reqs :
        /\ Len(reqs[r].calls) <= 1
        /\ reqs[r].kind = "pages" => Len(reqs[r].calls) = 0
        /\ (reqs[r].kind = "slug" /\ reqs[r].pc # "idle")
            => /\ Len(reqs[r].calls) = (IF dbReady THEN 1 ELSE 0)
               /\ reqs[r].lookup = "nodb" <=> ~dbReady

C18_Witness ==
    \E r \in Reqs :
        /\ Done(r) /\ reqs[r].kind = "slug" /\ reqs[r].lookup = "failed"
        /\ Len(reqs[r].calls) = 1

\* what the default page is answered with, by the state of pages.html
DefaultAnswer ==
    CASE fs.tpl.st = "ok" -> <<200, fs.tpl.txt>>
      [] fs.tpl.st = "missing" -> <<404, <<"pages.html not found">> >>
      [] OTHER -> <<500, <<"Error loading page">> >>

\* what the routes that use no database are answered with, by the
\* definition and the files alone
NoDbAnswer(q) ==
    LET nf404 == <<404, IF fs.nf.st = "ok" THEN NotFoundFile ELSE <<"404 - Page not found">> >>
    IN CASE q.kind = "pages" ->
               IF fs.pdir.st # "none" /\ ~q.slash THEN <<301, <<"Redirecting to /pages/">> >>
               ELSE IF fs.pdir.st = "index" /\ q.slash THEN <<200, PagesIndexFile>>
               ELSE IF ver = 2 /\ fs.alt.st = "ok" THEN <<200, AltPageFile>>
               ELSE IF ver = 2 /\ fs.alt.st = "unreadable" THEN <<500, <<"express error page">> >>
               ELSE DefaultAnswer
         [] q.kind = "sitemap" ->
               IF ver = 2 THEN nf404
               ELSE IF fs.sm.st = "ok" THEN <<200, SitemapFile>>
               ELSE <<404, <<"Sitemap not found">> >>
         [] OTHER ->
               IF ver = 2 THEN nf404
               ELSE CASE fs.idx.st = "ok" -> <<200, IndexFile>>
                      [] fs.idx.st = "missing" -> <<404, <<"Not Found">> >>
                      [] OTHER -> <<500, <<"express error page">> >>

StepAlone(q, rejects, date) ==
    CASE q.pc = "pageAccess" -> PageAccessDone(q)
      [] q.pc = "pageSend" -> PageSendDone(q)
      [] q.pc = "db" -> IF rejects THEN CatchToDefault([q EXCEPT !.lookup = "failed"])
                        ELSE AfterRows(q, table[q.slug], date)
      [] q.pc = "readTpl" -> AfterReadFile(q)
      [] q.pc = "nfSend" -> NotFound1(q)
      [] q.pc = "nfAccess" -> NotFoundAccess2(q)
      [] q.pc = "nfSend2" -> NotFoundSend2(q)
      [] q.pc = "default" -> ServeDefault(q)
      [] q.pc = "mw404" -> NotFoundMiddleware(q)
      [] OTHER -> q

RECURSIVE RunAlone(_, _, _, _)
RunAlone(q, rejects, date, n) ==
    IF q.pc = "done" \/ n = 0 THEN q
    ELSE RunAlone(StepAlone(q, rejects, date), rejects, date, n - 1)

\* the longest chain of steps of one request
MaxSteps == 6

\* the response to the request of q when it is the only one, with the
\* same outcome of db.execute
Alone(q, date) ==
    RunAlone(Dispatch([IdleReq EXCEPT !.kind = q.kind, !.slug = q.slug, !.slash = q.slash]),
             q.lookup = "failed", date, MaxSteps)

\* C21: requests share no state: whatever the interleaving of concurrent
\* GET /pages and GET /pages/:slug requests at their awaits, each response
\* is the one the request gets when it runs alone against the same files
\* and the same table.
C21_ResponseAsAlone ==
    \A r \in DOMAIN reqs :
        (Done(r) /\ fsChanges = 0)
        => \E date \in Dates :
              /\ Alone(reqs[r], date).pc = "done"
              /\ reqs[r].status = Alone(reqs[r], date).status
              /\ reqs[r].body = Alone(reqs[r], date).body

\* a request for one post was answered with its page while a request for
\* another post was waiting for the template
C21_Witness ==
    /\ NConc >= 2
    /\ \E r, o \in DOMAIN reqs :
         /\ r # o
         /\ Done(r) /\ reqs[r].lookup = "found" /\ reqs[r].status = 200
         /\ ~reqs[r].readFailed
         /\ reqs[o].pc = "readTpl" /\ reqs[o].slug # reqs[r].slug
         /\ fsChanges = 0

\* the page of a slug built from pages.html and the row as they are
PageNow(sl, date) ==
    Render(ver, fs.tpl.txt, Selected(table[sl][1]), IF ver = 1 THEN date ELSE "")

\* C22: nothing is kept between requests: a page sent for a slug is built
\* from the template file and the row as they are when the request is
\* served, also after either has changed since an earlier request for the
\* same slug.
C22_BuiltFromCurrent ==
    [][\A r \in DOMAIN reqs :
          (reqs[r].pc = "readTpl" /\ reqs'[r].pc = "done")
          => /\ fs.tpl.st = "ok"
             /\ Len(table[reqs[r].slug]) > 0
             /\ reqs'[r].status = 200
             /\ \E date \in Dates : reqs'[r].body = PageNow(reqs[r].slug, date)]_vars

\* two requests for the same slug were answered with pages that differ,
\* the template or the row having changed in between; one of them is the
\* page of the template and the row as they are now
C22_Witness ==
    \E r, o \in DOMAIN reqs :
        /\ r # o /\ Done(r) /\ Done(o)
        /\ reqs[r].slug = reqs[o].slug
        /\ reqs[r].lookup = "found" /\ reqs[o].lookup = "found"
        /\ reqs[r].status = 200 /\ reqs[o].status = 200
        /\ ~reqs[r].readFailed /\ ~reqs[o].readFailed
        /\ fsChanges > 0
        /\ reqs[r].body # reqs[o].body
        /\ \E date \in Dates : reqs[o].body = PageNow(reqs[o].slug, date)

\* a page rendered from the row of a post was sent to request r
Rendered(r) ==
    /\ Done(r) /\ reqs[r].lookup = "found" /\ reqs[r].status = 200
    /\ ~reqs[r].readFailed

\* C23: the date region of a page rendered from a post shows the
\* created_at of the post, and the date of the request only when the post
\* has no created_at.
C23_DateIsCreatedAt ==
    \A r \in Reqs :
        Rendered(r)
        => LET row == table[reqs[r].slug][1]
           IN IF row.created_at # NoDate
              THEN Count(<<SO, row.created_at, SC>>, reqs[r].body) > 0
              ELSE \E date \in Dates : Count(<<SO, date, SC>>, reqs[r].body) > 0

\* C24: for a post whose title is NULL the rendered page shows the
\* placeholder "No Title" in the title element and in the heading, and
\* nowhere the text of a null or undefined value.
C24_NoTitlePlaceholder ==
    (rpc = "sent" /\ rpost.title = Null)
    => /\ NoTok(rcur, {"null", "undefined"})
       /\ MatchOf(ver, "title", rtpl).start # 0
            => Count(<<TO, "No Title", LV, TC>>, rcur) > 0
       /\ MatchOf(ver, "heading", rtpl).start # 0
            => Count(<<HO, "No Title", HC>>, rcur) > 0

\* the terminal states of the resolver the response to q is one of
Terminals(q) ==
    { t \in {"RenderFromPost", "NotFound", "ServeStaticDefault"} :
        CASE t = "RenderFromPost" ->
               q.lookup = "found" /\ ~q.readFailed /\ q.status = 200
          [] t = "NotFound" ->
               q.lookup = "empty" /\ q.status = 404
          [] t = "ServeStaticDefault" ->
               /\ q.lookup # "empty"
               /\ q.lookup = "found" => q.readFailed
               /\ \/ q.status = 200
                  \/ q.status = 404 /\ q.body = <<"pages.html not found">>
                  \/ q.status = 500 /\ q.body = <<"Error loading page">> }

\* C25: each GET /pages and GET /pages/:slug makes one pass through the
\* resolver: it is handled by servePages, looks the post up at most once,
\* ends in exactly one of the terminal states RenderFromPost, NotFound and
\* ServeStaticDefault, and is sent exactly one response.
C25_OnePassOneResponse ==
    \A r \in Reqs :
        (Done(r) /\ reqs[r].kind \in {"pages", "slug"})
        => /\ reqs[r].via = "resolver"
           /\ Len(reqs[r].calls) <= 1
           /\ Cardinality(Terminals(reqs[r])) = 1
           /\ reqs[r].nsent = 1

\* C26: in the second definition GET /api/keywords never destroys saved
\* keywords: once a POST /api/keywords has stored a list that is not
\* empty, whatever the interleaving with concurrent GET /api/keywords
\* requests, the file stays there, is not empty and is not shorter than
\* what that POST wrote.
C26_SavedKeywordsKept ==
    (kw.post.pc = "done" /\ kw.post.status = 200 /\ kw.saved # <<>>)
    => /\ kw.file.there
       /\ kw.file.lines # <<>>
       /\ Len(kw.file.lines) >= Len(kw.saved)

\* the positions of s the pattern of a substitution matches
MatchRange(name, s) ==
    LET m == MatchOf(ver, name, s)
    IN IF m.start = 0 THEN {} ELSE m.start..m.end

\* the positions of e.after that hold what the substitution e put there
InsertedRange(e) ==
    LET m == MatchOf(ver, e.pass, e.before)
    IN IF m.start = 0 THEN {}
       ELSE m.start..(m.end + Len(e.after) - Len(e.before))

\* where the positions P of e.before stand in e.after, those inside the
\* replaced text being gone
Moved(P, e) ==
    LET m == MatchOf(ver, e.pass, e.before)
    IN IF m.start = 0 THEN P
       ELSE { p \in P : p < m.start }
            \cup { p + Len(e.after) - Len(e.before) : p \in { x \in P : x > m.end } }

\* the positions of the text after the k-th substitution that hold what
\* the substitutions so far have put there
RECURSIVE InsertedUpTo(_)
InsertedUpTo(k) ==
    IF k = 0 THEN {}
    ELSE Moved(InsertedUpTo(k - 1), rlog[k]) \cup InsertedRange(rlog[k])

\* C27: each substitution changes its own region of the original
\* template: in a template whose regions stand one after the other, no
\* substitution matches text that an earlier substitution put there, also
\* when the title of the post holds markup that looks like a marker.
C27_PassesMatchOriginalRegions ==
    Flat(rtpl)
    => \A k \in 2..Len(rlog) :
          MatchRange(rlog[k].pass, rlog[k].before) \cap InsertedUpTo(k - 1) = {}

\* the handlers of the second definition registered before the middleware
\* that answers 404: express.static, GET /keywords, GET /:page and
\* servePages
EarlierRoutes == {"static", "keywordsFile", "page", "resolver"}

\* the handlers registered after it: GET /api/search, GET /sitemap.xml and
\* the catch-all with its index.html
LaterRoutes == {"search", "sitemap", "catchAll"}
LaterSteps == {"searchDb", "sitemapSend", "catchAll", "indexSend"}

C29_EventuallyAnswered ==
    \A r \in Reqs : (reqs[r].pc # "idle") ~> Done(r)

\* second definition: a GET /pages that GET /:page passed on with next()
\* was answered by servePages, and a GET /sitemap.xml it passed on was
\* answered by the middleware behind it
C29_Witness ==
    \E r \in Reqs :
        /\ ver = 2 /\ Done(r) /\ reqs[r].nsent = 1
        /\ \/ reqs[r].kind = "pages" /\ reqs[r].via = "resolver"
           \/ reqs[r].kind = "sitemap" /\ reqs[r].via = "mw404"

====
